---- MODULE Spec2Model ----
(***************************************************************************)
(* Model of nearby_places_overpass.py: the Overpass transport client       *)
(* (_overpass_post: bounded retry with exponential backoff), the result    *)
(* normaliser (_extract_center, _build_address, _haversine_m,              *)
(* _to_output_record, dedup, sort, truncate) and the public entry points   *)
(* (search_nearby_veterinary, search_nearby_pet_friendly_food,             *)
(* search_nearby, the legacy adapters).                                    *)
(*                                                                         *)
(* Representation of Python values:                                        *)
(*   str        a sequence of one-character strings, "ab" is <<"a","b">>   *)
(*   None/null  the tuple <<"None">>                                       *)
(*   character  a one-character string; a character a TLA+ string cannot   *)
(*              hold is named by its code point, "U+000B"                  *)
(*   number     <<"num", n>> inside JSON data, n an integer                *)
(*   dict       a function whose DOMAIN is the set of keys present; as a   *)
(*              value inside JSON data (center, tags) it is <<"dict", f>>  *)
(*   list       a sequence                                                 *)
(*   time       hundredths of a second (1.25 s is 125)                     *)
(*   distance   whole metres, as round(_haversine_m(..)) yields them        *)
(***************************************************************************)
EXTENDS Integers, Sequences, FiniteSets, TLC

VARIABLES
    pc,          \* "idle" | "dispatch" | "post" (in requests.post) |
                 \* "sleep" (in time.sleep) | "returned" | "raised"
    fn,          \* the function whose frame is on top of the call stack
    args,        \* the arguments bound by the frame on top of the stack
    query,       \* the Overpass query built by the search (None: not built)
    attempts,    \* _overpass_post: iterations of the for loop completed
    backoff,     \* _overpass_post: local backoff
    last_err,    \* _overpass_post: local last_err
    resp,        \* _overpass_post: what the latest requests.post produced
    posts,       \* transport: number of HTTP POSTs issued
    sleeps,      \* clock: the arguments of the time.sleep calls that are
                 \* over, in order
    data,        \* search: the parsed body _overpass_post returned
    ret,         \* the value returned to the caller
    exc          \* the exception raised to the caller

vars == <<pc, fn, args, query, attempts, backoff, last_err, resp, posts,
          sleeps, data, ret, exc>>

---------------------------------------------------------------------------
(* Bounds of the model. *)

\* longest "elements" list of a response
MaxElems == 3
\* largest max_retries passed to _overpass_post by a direct caller
MaxRetries == 3

---------------------------------------------------------------------------
(* Python values. *)

None == <<"None">>

Num(n) == <<"num", n>>

\* dict.get(k): the value, or None when the key is missing
Get(d, k) == IF k \in DOMAIN d THEN d[k] ELSE None

\* truth value of a str-or-None: None and "" are falsy
Truthy(v) == v # None /\ v # <<>>

\* `v or None` on a str-or-None
OrNone(v) == IF Truthy(v) THEN v ELSE None

\* `v or ""` on a str-or-None
OrEmpty(v) == IF Truthy(v) THEN v ELSE <<>>

\* the characters str.strip() removes: those with str.isspace()
Whitespace ==
    { "\t", "\n", "U+000B", "\f", "\r", "U+001C", "U+001D", "U+001E", "U+001F",
      " ", "U+0085", "U+00A0", "U+1680", "U+2000", "U+2001", "U+2002",
      "U+2003", "U+2004", "U+2005", "U+2006", "U+2007", "U+2008", "U+2009",
      "U+200A", "U+2028", "U+2029", "U+202F", "U+205F", "U+3000" }

IsSpace(c) == c \in Whitespace

RECURSIVE LStrip(_)
LStrip(s) ==
    IF s = <<>> THEN <<>>
    ELSE IF IsSpace(Head(s)) THEN LStrip(Tail(s)) ELSE s

RECURSIVE RStrip(_)
RStrip(s) ==
    IF s = <<>> THEN <<>>
    ELSE IF IsSpace(s[Len(s)]) THEN RStrip(SubSeq(s, 1, Len(s) - 1)) ELSE s

\* str.strip()
Strip(s) == RStrip(LStrip(s))

UpperCase == <<"A","B","C","D","E","F","G","H","I","J","K","L","M",
               "N","O","P","Q","R","S","T","U","V","W","X","Y","Z">>
LowerCase == <<"a","b","c","d","e","f","g","h","i","j","k","l","m",
               "n","o","p","q","r","s","t","u","v","w","x","y","z">>

\* the characters of the str literals a lowered text is compared with
LiteralChars == {LowerCase[i] : i \in 1..26} \cup {"_"}

\* the Kelvin sign, the one character outside ASCII whose lower() is ASCII
KelvinSign == "U+212A"

\* `c.lower() == x` for a character c and a character x of LiteralChars:
\* x itself, its capital, and for "k" the Kelvin sign; every other
\* character lowers to text outside ASCII or to itself
LowersTo(c, x) ==
    CASE x \in LiteralChars ->
        \/ c = x
        \/ \E i \in 1..26 : UpperCase[i] = c /\ LowerCase[i] = x
        \/ c = KelvinSign /\ x = "k"

\* `s.lower() == lit` for a str s and a literal lit over LiteralChars: text
\* that lowers into LiteralChars lowers character by character
LowerEquals(s, lit) ==
    /\ Len(s) = Len(lit)
    /\ \A i \in 1..Len(lit) : LowersTo(s[i], lit[i])

\* " ".join(parts)
RECURSIVE Join(_)
Join(parts) ==
    IF parts = <<>> THEN <<>>
    ELSE IF Len(parts) = 1 THEN parts[1]
    ELSE parts[1] \o <<" ">> \o Join(Tail(parts))

---------------------------------------------------------------------------
(* _build_address *)

AddrKeys == <<"addr:housenumber", "addr:street", "addr:district",
              "addr:city", "addr:postcode">>

\* the loop over the five component tags: append the truthy ones, in order
RECURSIVE AddrParts(_, _)
AddrParts(tags, i) ==
    IF i > Len(AddrKeys) THEN <<>>
    ELSE LET v == Get(tags, AddrKeys[i])
         IN  (IF Truthy(v) THEN <<v>> ELSE <<>>) \o AddrParts(tags, i + 1)

_build_address(tags) ==
    IF DOMAIN tags = {} THEN None
    ELSE IF Truthy(Get(tags, "addr:full"))
         THEN OrNone(Strip(tags["addr:full"]))
    ELSE LET parts0 == AddrParts(tags, 1)
             parts  == IF parts0 = <<>> /\ Truthy(Get(tags, "contact:address"))
                       THEN <<tags["contact:address"]>>
                       ELSE parts0
         IN  OrNone(Strip(Join(parts)))

---------------------------------------------------------------------------
(* round(_haversine_m(lat1, lon1, lat2, lon2)), lines 153 and 231: the     *)
(* great-circle distance in floating point, rounded to whole metres. The    *)
(* values are those the code computes, tabulated for every pair of points   *)
(* of a grid of whole-degree coordinates: a pole, both sides of the         *)
(* equator and of the antimeridian, and points that share neither a         *)
(* meridian nor a parallel. The model draws every coordinate from the grid. *)

\* the points of the grid, latitude by latitude
GridPoints ==
    <<<<-90, -170>>, <<-90, 0>>, <<-90, 2>>, <<-90, 75>>, <<-90, 170>>,
      <<-1, -170>>, <<-1, 0>>, <<-1, 2>>, <<-1, 75>>, <<-1, 170>>,
      <<0, -170>>, <<0, 0>>, <<0, 2>>, <<0, 75>>, <<0, 170>>,
      <<1, -170>>, <<1, 0>>, <<1, 2>>, <<1, 75>>, <<1, 170>>,
      <<75, -170>>, <<75, 0>>, <<75, 2>>, <<75, 75>>, <<75, 170>>>>
\* MetresBetween[i][j] is round(_haversine_m(lat1, lon1, lat2, lon2)) as the
\* code computes it for <<lat1, lon1>> = GridPoints[i] and
\* <<lat2, lon2>> = GridPoints[j]
MetresBetween ==
    <<
      <<0, 0, 0, 0, 0, 9896348, 9896348, 9896348, 9896348, 9896348,
        10007543, 10007543, 10007543, 10007543, 10007543, 10118738,
        10118738, 10118738, 10118738, 10118738, 18347163, 18347163,
        18347163, 18347163, 18347163>>,
      <<0, 0, 0, 0, 0, 9896348, 9896348, 9896348, 9896348, 9896348,
        10007543, 10007543, 10007543, 10007543, 10007543, 10118738,
        10118738, 10118738, 10118738, 10118738, 18347163, 18347163,
        18347163, 18347163, 18347163>>,
      <<0, 0, 0, 0, 0, 9896348, 9896348, 9896348, 9896348, 9896348,
        10007543, 10007543, 10007543, 10007543, 10007543, 10118738,
        10118738, 10118738, 10118738, 10118738, 18347163, 18347163,
        18347163, 18347163, 18347163>>,
      <<0, 0, 0, 0, 0, 9896348, 9896348, 9896348, 9896348, 9896348,
        10007543, 10007543, 10007543, 10007543, 10007543, 10118738,
        10118738, 10118738, 10118738, 10118738, 18347163, 18347163,
        18347163, 18347163, 18347163>>,
      <<0, 0, 0, 0, 0, 9896348, 9896348, 9896348, 9896348, 9896348,
        10007543, 10007543, 10007543, 10007543, 10007543, 10118738,
        10118738, 10118738, 10118738, 10118738, 18347163, 18347163,
        18347163, 18347163, 18347163>>,
      <<9896348, 9896348, 9896348, 9896348, 9896348, 0, 18881172, 19098194,
        12784371, 2223556, 111195, 18897648, 19118650, 12786964, 2226563,
        222390, 18903307, 19125663, 12788653, 2234878, 8450814, 11760621,
        11769977, 10813859, 8553086>>,
      <<9896348, 9896348, 9896348, 9896348, 9896348, 18881172, 0, 222356,
        8338130, 18881172, 18897648, 111195, 248629, 8339879, 18897648,
        18903307, 222390, 314499, 8342148, 18903307, 11760621, 8450814,
        8451849, 9688099, 11760621>>,
      <<9896348, 9896348, 9896348, 9896348, 9896348, 19098194, 222356, 0,
        8115794, 18662409, 19118650, 248629, 111195, 8117526, 18676190,
        19125663, 314499, 222390, 8119852, 18680952, 11769977, 8451849,
        8450814, 9632699, 11749214>>,
      <<9896348, 9896348, 9896348, 9896348, 9896348, 12784371, 8338130,
        8115794, 0, 10561400, 12786964, 8339879, 8117526, 111195, 10563433,
        12788653, 8342148, 8119852, 222390, 10565296, 10813859, 9688099,
        9632699, 8450814, 10258701>>,
      <<9896348, 9896348, 9896348, 9896348, 9896348, 2223556, 18881172,
        18662409, 10561400, 0, 2226563, 18897648, 18676190, 10563433,
        111195, 2234878, 18903307, 18680952, 10565296, 222390, 8553086,
        11760621, 11749214, 10258701, 8450814>>,
      <<10007543, 10007543, 10007543, 10007543, 10007543, 111195, 18897648,
        19118650, 12786964, 2226563, 0, 18903138, 19125527, 12787417,
        2223899, 111195, 18897648, 19118650, 12786964, 2226563, 8339619,
        11649547, 11658860, 10705811, 8442353>>,
      <<10007543, 10007543, 10007543, 10007543, 10007543, 18897648, 111195,
        248629, 8339879, 18897648, 18903138, 0, 222390, 8339619, 18903138,
        18897648, 111195, 248629, 8339879, 18897648, 11649547, 8339619,
        8340659, 9580447, 11649547>>,
      <<10007543, 10007543, 10007543, 10007543, 10007543, 19118650, 248629,
        111195, 8117526, 18676190, 19125527, 222390, 0, 8117230, 18680748,
        19118650, 248629, 111195, 8117526, 18676190, 11658860, 8340659,
        8339619, 9524980, 11638192>>,
      <<10007543, 10007543, 10007543, 10007543, 10007543, 12786964,
        8339879, 8117526, 111195, 10563433, 12787417, 8339619, 8117230, 0,
        10563518, 12786964, 8339879, 8117526, 111195, 10563433, 10705811,
        9580447, 9524980, 8339619, 10151270>>,
      <<10007543, 10007543, 10007543, 10007543, 10007543, 2226563,
        18897648, 18676190, 10563433, 111195, 2223899, 18903138, 18680748,
        10563518, 0, 2226563, 18897648, 18676190, 10563433, 111195,
        8442353, 11649547, 11638192, 10151270, 8339619>>,
      <<10118738, 10118738, 10118738, 10118738, 10118738, 222390, 18903307,
        19125663, 12788653, 2234878, 111195, 18897648, 19118650, 12786964,
        2226563, 0, 18881172, 19098194, 12784371, 2223556, 8228425,
        11538471, 11547742, 10597751, 8331624>>,
      <<10118738, 10118738, 10118738, 10118738, 10118738, 18903307, 222390,
        314499, 8342148, 18903307, 18897648, 111195, 248629, 8339879,
        18897648, 18881172, 0, 222356, 8338130, 18881172, 11538471,
        8228425, 8229469, 9472804, 11538471>>,
      <<10118738, 10118738, 10118738, 10118738, 10118738, 19125663, 314499,
        222390, 8119852, 18680952, 19118650, 248629, 111195, 8117526,
        18676190, 19098194, 222356, 0, 8115794, 18662409, 11547742,
        8229469, 8228425, 9417270, 11527168>>,
      <<10118738, 10118738, 10118738, 10118738, 10118738, 12788653,
        8342148, 8119852, 222390, 10565296, 12786964, 8339879, 8117526,
        111195, 10563433, 12784371, 8338130, 8115794, 0, 10561400,
        10597751, 9472804, 9417270, 8228425, 10043835>>,
      <<10118738, 10118738, 10118738, 10118738, 10118738, 2234878,
        18903307, 18680952, 10565296, 222390, 2226563, 18897648, 18676190,
        10563433, 111195, 2223556, 18881172, 18662409, 10561400, 0,
        8331624, 11538471, 11527168, 10043835, 8228425>>,
      <<18347163, 18347163, 18347163, 18347163, 18347163, 8450814,
        11760621, 11769977, 10813859, 8553086, 8339619, 11649547, 11658860,
        10705811, 8442353, 8228425, 11538471, 11547742, 10597751, 8331624,
        0, 3322857, 3327532, 2803973, 572862>>,
      <<18347163, 18347163, 18347163, 18347163, 18347163, 11760621,
        8450814, 8451849, 9688099, 11760621, 11649547, 8339619, 8340659,
        9580447, 11649547, 11538471, 8228425, 8229469, 9472804, 11538471,
        3322857, 0, 57556, 2016018, 3322857>>,
      <<18347163, 18347163, 18347163, 18347163, 18347163, 11769977,
        8451849, 8450814, 9632699, 11749214, 11658860, 8340659, 8339619,
        9524980, 11638192, 11547742, 8229469, 8228425, 9417270, 11527168,
        3327532, 57556, 0, 1969482, 3317148>>,
      <<18347163, 18347163, 18347163, 18347163, 18347163, 10813859,
        9688099, 9632699, 8450814, 10258701, 10705811, 9580447, 9524980,
        8339619, 10151270, 10597751, 9472804, 9417270, 8228425, 10043835,
        2803973, 2016018, 1969482, 0, 2446450>>,
      <<18347163, 18347163, 18347163, 18347163, 18347163, 8553086,
        11760621, 11749214, 10258701, 8450814, 8442353, 11649547, 11638192,
        10151270, 8339619, 8331624, 11538471, 11527168, 10043835, 8228425,
        572862, 3322857, 3317148, 2446450, 0>>
    >>

\* the place of the point <<lat, lon>> in GridPoints
GridIndex(lat, lon) ==
    CHOOSE i \in 1..Len(GridPoints) : GridPoints[i] = <<lat, lon>>

\* round(_haversine_m(lat1, lon1, lat2, lon2)) for two points of the grid
RoundHaversine(lat1, lon1, lat2, lon2) ==
    MetresBetween[GridIndex(lat1, lon1)][GridIndex(lat2, lon2)]

---------------------------------------------------------------------------
(* _extract_center *)

IsNum(v) == Len(v) = 2 /\ v[1] = "num"

\* a JSON object is <<"dict", f>>
Dict(f) == <<"dict", f>>
IsDict(v) == Len(v) = 2 /\ v[1] = "dict"

EmptyDict == [k \in {} |-> None]

\* float(v): <<"ok", n>> for a number, a TypeError for None
Float(v) == IF IsNum(v) THEN <<"ok", v[2]>> ELSE <<"raise", "TypeError">>

\* (float(a), float(b)): the first conversion that fails raises
FloatPair(a, b) ==
    IF Float(a)[1] = "raise" THEN Float(a)
    ELSE IF Float(b)[1] = "raise" THEN Float(b)
    ELSE <<"ok", Float(a)[2], Float(b)[2]>>

\* <<"ok", lat, lon>>, None, or <<"raise", type>>
_extract_center(el) ==
    IF "lat" \in DOMAIN el /\ "lon" \in DOMAIN el
    THEN FloatPair(el["lat"], el["lon"])
    ELSE LET center == Get(el, "center")
         IN  IF /\ IsDict(center)
                /\ Get(center[2], "lat") # None
                /\ Get(center[2], "lon") # None
             THEN FloatPair(center[2]["lat"], center[2]["lon"])
             ELSE None

---------------------------------------------------------------------------
(* _to_output_record, sort, truncate *)

\* fault variant: the record also carries the coordinate
RecordWithCoordinates(name, address, distance_m) ==
    [name |-> name, address |-> address, rating |-> None,
     distance_m |-> distance_m, lat |-> 0, lon |-> 0]
_to_output_record(name, address, distance_m) ==
    [name |-> name, address |-> address, rating |-> None,
     distance_m |-> distance_m]

\* insert r into the sorted list s behind every record that is not farther
RECURSIVE InsertByDistance(_, _)
InsertByDistance(s, r) ==
    IF s = <<>> THEN <<r>>
    ELSE IF Head(s).distance_m <= r.distance_m
         THEN <<Head(s)>> \o InsertByDistance(Tail(s), r)
         ELSE <<r>> \o s

\* fault variant: the sort is left out
SortSkipped(records) == records
\* records.sort(key=lambda x: x["distance_m"]): a stable sort
RECURSIVE SortByDistance(_)
SortByDistance(records) ==
    IF records = <<>> THEN <<>>
    ELSE InsertByDistance(
             SortByDistance(SubSeq(records, 1, Len(records) - 1)),
             records[Len(records)])

Max(a, b) == IF a >= b THEN a ELSE b
Min(a, b) == IF a <= b THEN a ELSE b

\* the slice s[:k] of Python, k of either sign
SliceTo(s, k) ==
    IF k >= 0 THEN SubSeq(s, 1, Min(k, Len(s)))
    ELSE SubSeq(s, 1, Max(0, Len(s) + k))

\* fault variant: top_n is not clamped at 0
TruncateUnclamped(records, top_n) == SliceTo(records, top_n)
\* records[: max(0, int(top_n))]
Truncate(records, top_n) == SliceTo(records, Max(0, top_n))

---------------------------------------------------------------------------
(* The element loops of the two searches. *)

\* truth value of a JSON value: null, 0, "", [] and {} are falsy
Falsy(v) ==
    \/ v = None
    \/ v = <<>>
    \/ IsNum(v) /\ v[2] = 0
    \/ IsDict(v) /\ DOMAIN v[2] = {}

\* el.get("tags") or {} is a value without .get: tags.get("name") raises
TagsRaise(el) ==
    LET t == Get(el, "tags") IN ~Falsy(t) /\ ~IsDict(t)

\* el.get("tags") or {}
TagsOf(el) ==
    LET t == Get(el, "tags") IN IF Falsy(t) THEN EmptyDict ELSE t[2]

\* tags.get("name") or None
NameOf(tags) == OrNone(Get(tags, "name"))

\* the record built from an element whose coordinate is c = <<"ok", lat, lon>>
RecordOf(el, c, latitude, longitude) ==
    _to_output_record(
        NameOf(TagsOf(el)),
        _build_address(TagsOf(el)),
        RoundHaversine(latitude, longitude, c[2], c[3]))

\* fault variant: the key is the name alone
DedupKeyNameOnly(name, address) == <<OrEmpty(name), <<>>>>
\* key = (name or "", address or "")
DedupKey(name, address) == <<OrEmpty(name), OrEmpty(address)>>

\* search_nearby_veterinary, lines 143-155: <<"ok", records>> or <<"raise", t>>
RECURSIVE VetLoop(_, _, _, _, _)
VetLoop(elements, i, latitude, longitude, records) ==
    IF i > Len(elements) THEN <<"ok", records>>
    ELSE LET el == elements[i]
             c  == _extract_center(el)
         IN  IF c = None
             THEN VetLoop(elements, i + 1, latitude, longitude, records)
             ELSE IF c[1] = "raise" THEN c
             ELSE IF TagsRaise(el) THEN <<"raise", "AttributeError">>
             ELSE VetLoop(elements, i + 1, latitude, longitude,
                          Append(records, RecordOf(el, c, latitude, longitude)))

\* search_nearby_pet_friendly_food, lines 219-238
RECURSIVE FoodLoop(_, _, _, _, _, _)
FoodLoop(elements, i, latitude, longitude, seen, records) ==
    IF i > Len(elements) THEN <<"ok", records>>
    ELSE LET el == elements[i]
             c  == _extract_center(el)
         IN  IF c = None
             THEN FoodLoop(elements, i + 1, latitude, longitude, seen, records)
             ELSE IF c[1] = "raise" THEN c
             ELSE IF TagsRaise(el) THEN <<"raise", "AttributeError">>
             ELSE LET r   == RecordOf(el, c, latitude, longitude)
                      key == DedupKey(r.name, r.address)
                  IN  IF key \in seen
                      THEN FoodLoop(elements, i + 1, latitude, longitude,
                                    seen, records)
                      ELSE FoodLoop(elements, i + 1, latitude, longitude,
                                    seen \cup {key}, Append(records, r))

\* data.get("elements", [])
ElementsOf(body) == IF "elements" \in DOMAIN body THEN body["elements"] ELSE <<>>

\* the part of a search after _overpass_post returned `body`
Normalise(f, body, a) ==
    LET looped == IF f = "search_nearby_veterinary"
                  THEN VetLoop(ElementsOf(body), 1, a.latitude, a.longitude, <<>>)
                  ELSE FoodLoop(ElementsOf(body), 1, a.latitude, a.longitude,
                                {}, <<>>)
    IN  IF looped[1] = "raise" THEN looped
        ELSE <<"ok", Truncate(SortByDistance(looped[2]), a.top_n)>>

---------------------------------------------------------------------------
(* The transport: what one requests.post call produces. *)

\* the statuses _overpass_post sleeps on and retries without an exception
TransientStatuses == {429, 502, 503, 504}

\* the statuses the stub transport answers with
Statuses == {200, 400, 429, 500, 502, 503, 504}

NetworkErrors == {"ConnectionError", "Timeout"}

NoResp ==
    [kind |-> "none", type |-> "", status |-> 0, parseable |-> FALSE,
     body |-> EmptyDict]

\* requests.post raised
Raises(t) ==
    [kind |-> "exception", type |-> t, status |-> 0, parseable |-> FALSE,
     body |-> EmptyDict]

\* requests.post returned a response; parseable: resp.json() succeeds
Response(s, parseable, body) ==
    [kind |-> "response", type |-> "", status |-> s, parseable |-> parseable,
     body |-> body]

\* resp.raise_for_status() raises HTTPError
IsHttpError(s) == 400 <= s /\ s < 600

\* the exception caught by `except Exception as e` for outcome o, or None
\* when the attempt raises nothing
Caught(o) ==
    IF o.kind = "exception" THEN <<o.type, 0>>
    ELSE IF o.status \in TransientStatuses THEN None
    ELSE IF IsHttpError(o.status) THEN <<"HTTPError", o.status>>
    ELSE IF ~o.parseable THEN <<"JSONDecodeError", 0>>
    ELSE None

\* the attempt reaches `return resp.json()`
Succeeds(o) ==
    /\ o.kind = "response"
    /\ o.status \notin TransientStatuses
    /\ Caught(o) = None

---------------------------------------------------------------------------
(* Inputs. *)

\* name and address texts
StrA == <<"a">>
StrB == <<"b">>
StrS == <<"s">>

\* an element with a direct coordinate
Node(lat, lon) == ("lat" :> lat) @@ ("lon" :> lon)
\* an element with a center
Way(center) == ("center" :> center)
Center(lat, lon) == Dict(("lat" :> lat) @@ ("lon" :> lon))
\* tags: Dict(f) or None
WithTags(el, tags) == el @@ ("tags" :> tags)

\* a node on the equator, a way whose center shares neither meridian nor
\* parallel with the origin, a node with an address, a node whose tags are
\* null, an element without coordinates that shares its name with the first
\* three, a way whose center holds a null, a node whose lat is null
Elements ==
    { WithTags(Node(Num(0), Num(75)), Dict("name" :> StrA)),
      WithTags(Way(Center(Num(1), Num(2))), Dict("name" :> StrA)),
      WithTags(Node(Num(0), Num(0)),
               Dict(("name" :> StrA) @@ ("addr:street" :> StrS))),
      WithTags(Node(Num(1), Num(0)), None),
      WithTags(EmptyDict, Dict("name" :> StrA)),
      WithTags(Way(Center(None, Num(0))), Dict("name" :> StrB)),
      Node(None, Num(0)) }

RECURSIVE SeqsUpTo(_, _)
SeqsUpTo(S, n) ==
    IF n = 0 THEN {<<>>}
    ELSE LET shorter == SeqsUpTo(S, n - 1)
         IN  shorter \cup {Append(s, x) : s \in shorter, x \in S}

\* the parsed bodies of successful responses: with or without "elements"
Bodies == {EmptyDict} \cup {("elements" :> s) : s \in SeqsUpTo(Elements, MaxElems)}

\* the bodies served to a direct caller of _overpass_post
PostBodies == {EmptyDict} \cup {("elements" :> s) : s \in SeqsUpTo(Elements, 1)}

\* every way an attempt served to a direct caller of _overpass_post can end
PostOutcomes ==
    {Raises(t) : t \in NetworkErrors}
    \cup {Response(s, FALSE, EmptyDict) : s \in Statuses}
    \cup {Response(200, TRUE, b) : b \in PostBodies}

\* the attempts served to a search: a timeout, a 503, or a parsed body
SearchOutcomes ==
    {Raises("Timeout"), Response(503, FALSE, EmptyDict)}
    \cup {Response(200, TRUE, b) : b \in Bodies}

TopNs == {-1, 0, 1, 2, MaxElems + 1}
Latitudes == {0}
Longitudes == {0}
Radii == {1500}
\* radius of search_nearby_veterinary_v1, a float, in tenths of a metre
V1Radii == {15000, 15009}

\* mode strings passed to search_nearby
ModeVeterinary == <<"v","e","t","e","r","i","n","a","r","y">>
ModePetFriendlyFood == <<"p","e","t","_","f","r","i","e","n","d","l","y","_","f","o","o","d">>
ModePetFood == <<"p","e","t","_","f","o","o","d">>
ModeFood == <<"f","o","o","d">>
Modes ==
    { ModeVeterinary, ModePetFriendlyFood, ModePetFood, ModeFood,
      <<" ","V","e","t","e","r","i","n","a","r","y","\n">>,
      <<"F","O","O","D">>,
      <<"\f","f","o","o","d","U+00A0">>,
      <<"P","e","t","_","F","o","o","d"," ">>,
      <<"i","n","v","a","l","i","d">>,
      <<"v","e","t">>,
      <<"F","O","O","U+0110">>,
      <<"f","o","o","d","U+212A">>,
      <<>>, None }

\* **kwargs of search_nearby: nothing, or strict
KwargsSet == {EmptyDict, ("strict" :> TRUE), ("strict" :> FALSE)}

\* tag mappings passed to _build_address: every key absent, empty, blank or
\* holding text; addr:full also holding text in blanks
Absent == <<"absent">>
AddrTagKeys ==
    <<"addr:full", "addr:housenumber", "addr:street", "addr:district",
      "addr:city", "addr:postcode", "contact:address">>
TagTexts == <<"f", "1", "s", "d", "c", "9", "x">>
ValuesOf(i) ==
    {Absent, <<>>, <<" ">>, <<TagTexts[i]>>}
    \cup (IF i = 1 THEN {<<"\f", TagTexts[i], " ">>} ELSE {})
\* the mappings over the first n keys
RECURSIVE TagMapsUpTo(_)
TagMapsUpTo(n) ==
    IF n = 0 THEN {EmptyDict}
    ELSE {IF v = Absent THEN m ELSE m @@ (AddrTagKeys[n] :> v) :
             m \in TagMapsUpTo(n - 1), v \in ValuesOf(n)}
TagMaps == TagMapsUpTo(Len(AddrTagKeys))

---------------------------------------------------------------------------
(* State machine. *)

\* backoff = 1.25
BaseDelay == 125
\* max_retries: int = 6
DefaultMaxRetries == 6

Init ==
    /\ pc = "idle"
    /\ fn = "none"
    /\ args = EmptyDict
    /\ query = None
    /\ attempts = 0
    /\ backoff = 0
    /\ last_err = None
    /\ resp = NoResp
    /\ posts = 0
    /\ sleeps = <<>>
    /\ data = None
    /\ ret = None
    /\ exc = None

\* `for _ in range(max_retries)` is over after n iterations
\* fault variant: one iteration too many
LoopOverOneMore(n, max_retries) == n > max_retries
LoopOver(n, max_retries) == n >= max_retries

\* backoff *= 2
\* fault variant: the backoff is not doubled
BackoffKept(b) == b
NextBackoff(b) == b * 2

\* max_retries of the running _overpass_post call
MaxRetriesNow ==
    IF fn = "_overpass_post" THEN args.max_retries ELSE DefaultMaxRetries

\* _overpass_post, lines 89-92 and, when range(max_retries) is empty, 108
EnterPost(max_retries) ==
    /\ attempts' = 0
    /\ backoff' = BaseDelay
    /\ last_err' = None
    /\ resp' = NoResp
    /\ IF LoopOver(0, max_retries)
       THEN /\ pc' = "raised"
            /\ exc' = <<"RuntimeError", None>>
       ELSE /\ pc' = "post"
            /\ exc' = exc
    /\ UNCHANGED <<posts, sleeps, data, ret>>

\* a direct call of _overpass_post(query, max_retries=n)
CallOverpassPost(n) ==
    /\ pc = "idle"
    /\ fn' = "_overpass_post"
    /\ args' = [max_retries |-> n]
    /\ query' = [filter |-> "caller", around |-> <<0, 0, 0>>]
    /\ EnterPost(n)

\* what the search does with the body _overpass_post returned
Finish(f, body, a) ==
    IF f = "_overpass_post"
    THEN /\ pc' = "returned"
         /\ ret' = body
         /\ UNCHANGED <<data, exc, attempts, backoff, last_err>>
    ELSE /\ data' = body
         /\ attempts' = 0
         /\ backoff' = 0
         /\ last_err' = None
         /\ LET r == Normalise(f, body, a)
            IN  IF r[1] = "raise"
                THEN pc' = "raised" /\ exc' = <<r[2], 0>> /\ ret' = ret
                ELSE pc' = "returned" /\ ret' = r[2] /\ exc' = exc

\* requests.post is over with outcome o, lines 96-104: a parsed body is
\* returned; any other outcome leads into time.sleep(backoff), line 98 for a
\* transient status and line 105, after last_err = e, for an exception
Post(o) ==
    /\ pc = "post"
    /\ posts' = posts + 1
    /\ resp' = IF Succeeds(o) /\ fn # "_overpass_post" THEN NoResp ELSE o
    /\ UNCHANGED <<fn, args, query, sleeps>>
    /\ IF Succeeds(o)
       THEN Finish(fn, o.body, args)
       ELSE /\ pc' = "sleep"
            /\ last_err' = IF Caught(o) # None THEN Caught(o) ELSE last_err
            /\ UNCHANGED <<attempts, backoff, data, ret, exc>>

\* time.sleep(backoff) is over: backoff *= 2 (lines 99, 106), then the next
\* iteration of the loop or, after the last one, the raise of line 108
Wake ==
    /\ pc = "sleep"
    /\ sleeps' = Append(sleeps, backoff)
    /\ backoff' = NextBackoff(backoff)
    /\ attempts' = attempts + 1
    /\ IF LoopOver(attempts + 1, MaxRetriesNow)
       THEN /\ pc' = "raised"
            /\ exc' = <<"RuntimeError", last_err>>
       ELSE /\ pc' = "post"
            /\ exc' = exc
    /\ UNCHANGED <<fn, args, query, last_err, resp, posts, data, ret>>

Around(lat, lon, radius_m) == <<radius_m, lat, lon>>

\* search_nearby_veterinary, lines 131-141
EnterVeterinary(lat, lon, radius_m, top_n) ==
    /\ fn' = "search_nearby_veterinary"
    /\ args' = [latitude |-> lat, longitude |-> lon, radius_m |-> radius_m,
                top_n |-> top_n]
    /\ query' = [filter |-> "veterinary", around |-> Around(lat, lon, radius_m)]
    /\ EnterPost(DefaultMaxRetries)

\* search_nearby_pet_friendly_food, lines 179-216
EnterFood(lat, lon, radius_m, top_n, strict) ==
    /\ fn' = "search_nearby_pet_friendly_food"
    /\ args' = [latitude |-> lat, longitude |-> lon, radius_m |-> radius_m,
                top_n |-> top_n]
    /\ query' = [filter |-> IF strict THEN "restaurant_cafe_dog_pets"
                            ELSE "restaurant_cafe",
                 around |-> Around(lat, lon, radius_m)]
    /\ EnterPost(DefaultMaxRetries)

CallVeterinary(lat, lon, radius_m, top_n) ==
    /\ pc = "idle"
    /\ EnterVeterinary(lat, lon, radius_m, top_n)

CallFood(lat, lon, radius_m, top_n, strict) ==
    /\ pc = "idle"
    /\ EnterFood(lat, lon, radius_m, top_n, strict)

\* search_nearby_veterinary_legacy: api_key and language are ignored
CallVeterinaryLegacy(api_key, lat, lon, radius, language, top_n) ==
    /\ pc = "idle"
    /\ EnterVeterinary(lat, lon, radius, top_n)

\* int() of a non-negative float given in tenths
IntOfTenths(x) == x \div 10

\* search_nearby_veterinary_v1: api_key and field_mask are ignored
CallVeterinaryV1(api_key, lat, lon, radius, max_results, field_mask) ==
    /\ pc = "idle"
    /\ EnterVeterinary(lat, lon, IntOfTenths(radius), max_results)

\* _build_address called on a tag mapping
CallBuildAddress(tags) ==
    /\ pc = "idle"
    /\ pc' = "returned"
    /\ fn' = "_build_address"
    /\ args' = [tags |-> tags]
    /\ ret' = _build_address(tags)
    /\ UNCHANGED <<query, attempts, backoff, last_err, resp, posts, sleeps,
                   data, exc>>

\* search_nearby is called: its frame binds the arguments
CallSearchNearby(lat, lon, radius_m, top_n, mode, kwargs) ==
    /\ pc = "idle"
    /\ pc' = "dispatch"
    /\ fn' = "search_nearby"
    /\ args' = [latitude |-> lat, longitude |-> lon, radius_m |-> radius_m,
                top_n |-> top_n, mode |-> mode, kwargs |-> kwargs]
    /\ UNCHANGED <<query, attempts, backoff, last_err, resp, posts, sleeps,
                   data, ret, exc>>

\* (mode or "").strip(): the text whose lower() line 253 binds to mode
StrippedMode(mode) == Strip(OrEmpty(mode))

FoodModes == {ModePetFriendlyFood, ModePetFood, ModeFood}

\* fault variant: an unknown mode falls back to veterinary
TargetDefaultsToVeterinary(m) ==
    IF \E lit \in FoodModes : LowerEquals(m, lit)
    THEN "search_nearby_pet_friendly_food"
    ELSE "search_nearby_veterinary"
\* what search_nearby does with a stripped mode m, lines 253-258: the
\* comparisons of m.lower() with the literals
Target(m) ==
    IF LowerEquals(m, ModeVeterinary) THEN "search_nearby_veterinary"
    ELSE IF \E lit \in FoodModes : LowerEquals(m, lit)
    THEN "search_nearby_pet_friendly_food"
    ELSE "ValueError"

Fail(e) ==
    /\ pc' = "raised"
    /\ exc' = e
    /\ UNCHANGED <<fn, args, query, attempts, backoff, last_err, resp, posts,
                   sleeps, data, ret>>

\* search_nearby, lines 253-258
Dispatch ==
    /\ pc = "dispatch"
    /\ LET a == args
           t == Target(StrippedMode(a.mode))
       IN  IF t = "search_nearby_veterinary"
           THEN IF "strict" \in DOMAIN a.kwargs
                THEN Fail(<<"TypeError", 0>>)
                ELSE EnterVeterinary(a.latitude, a.longitude, a.radius_m, a.top_n)
           ELSE IF t = "search_nearby_pet_friendly_food"
           THEN EnterFood(a.latitude, a.longitude, a.radius_m, a.top_n,
                          IF "strict" \in DOMAIN a.kwargs
                          THEN a.kwargs["strict"] ELSE TRUE)
           ELSE Fail(<<"ValueError", 0>>)

Next ==
    \/ pc = "idle" /\ \E n \in 0..MaxRetries : CallOverpassPost(n)
    \/ pc = "post" /\ fn = "_overpass_post" /\ \E o \in PostOutcomes : Post(o)
    \/ pc = "post" /\ fn # "_overpass_post" /\ \E o \in SearchOutcomes : Post(o)
    \/ Wake
    \/ pc = "idle" /\
       \E lat \in Latitudes, lon \in Longitudes, r \in Radii, n \in TopNs :
          CallVeterinary(lat, lon, r, n)
    \/ pc = "idle" /\
       \E lat \in Latitudes, lon \in Longitudes, r \in Radii, n \in TopNs,
          strict \in BOOLEAN :
          CallFood(lat, lon, r, n, strict)
    \/ pc = "idle" /\
       \E lat \in Latitudes, lon \in Longitudes, r \in Radii, n \in TopNs :
          CallVeterinaryLegacy("key", lat, lon, r, "zh-TW", n)
    \/ pc = "idle" /\
       \E lat \in Latitudes, lon \in Longitudes, r \in V1Radii, n \in TopNs :
          CallVeterinaryV1("key", lat, lon, r, n, "mask")
    \/ pc = "idle" /\
       \E lat \in Latitudes, lon \in Longitudes, r \in Radii, n \in TopNs,
          m \in Modes, k \in KwargsSet :
          CallSearchNearby(lat, lon, r, n, m, k)
    \/ Dispatch
    \/ pc = "idle" /\ \E tags \in TagMaps : CallBuildAddress(tags)

Spec == Init /\ [][Next]_vars

---------------------------------------------------------------------------
(* Properties. *)

Searches == {"search_nearby_veterinary", "search_nearby_pet_friendly_food"}

\* the call ended by raising the RuntimeError of line 108
Exhausted == pc = "raised" /\ exc[1] = "RuntimeError"

\* a search got a parsed body from _overpass_post and has ended
SearchEnded ==
    /\ fn \in Searches
    /\ pc \in {"returned", "raised"}
    /\ ~Exhausted

SearchReturned == fn \in Searches /\ pc = "returned"

RECURSIVE Pow2(_)
Pow2(n) == IF n = 0 THEN 1 ELSE 2 * Pow2(n - 1)

\* C1: when every attempt fails, in any mix of transient statuses, HTTP
\* error statuses, unparseable bodies and network exceptions, the call issues
\* exactly max_retries POSTs and then raises RuntimeError: while fewer have
\* been issued it is still trying (posting, or sleeping before the next
\* iteration), and it never issues more.
C1_FailsAfterExactlyMaxRetries ==
    /\ (pc = "post") => (posts = attempts /\ posts < MaxRetriesNow)
    /\ (pc = "sleep") => (posts = attempts + 1 /\ posts <= MaxRetriesNow)
    /\ (pc = "raised" /\ fn = "_overpass_post") => Exhausted
    /\ Exhausted => (posts = MaxRetriesNow /\ attempts = posts)

C1_Witness ==
    /\ Exhausted
    /\ fn = "_overpass_post"
    /\ posts = 3
    /\ exc[2] = <<"HTTPError", 400>>
    /\ resp.status = 429

\* C2: a call that succeeds after N failed attempts returns the parsed body
\* of the successful response after exactly N + 1 <= max_retries POSTs, none
\* after the success, and slept after failed attempt i for at least
\* BaseDelay * 2^(i-1).
C2_ReturnsAfterBackoff ==
    /\ (pc = "returned" /\ fn = "_overpass_post") =>
          /\ ret = resp.body
          /\ Succeeds(resp)
          /\ posts = attempts + 1
    /\ (pc = "returned" /\ fn \in Searches \cup {"_overpass_post"}) =>
          /\ posts = Len(sleeps) + 1
          /\ posts <= MaxRetriesNow
          /\ \A i \in 1..Len(sleeps) : sleeps[i] >= BaseDelay * Pow2(i - 1)

\* two transient failures (no exception was ever caught), then a body
C2_Witness ==
    /\ pc = "returned"
    /\ fn = "_overpass_post"
    /\ posts = 3
    /\ last_err = None
    /\ sleeps = <<125, 250>>
    /\ "elements" \in DOMAIN ret

\* the failure cause of an attempt that ended as o
CauseOf(o) ==
    IF o.kind = "response" /\ o.status \in TransientStatuses
    THEN <<"HTTPStatus", o.status>>
    ELSE Caught(o)

\* C3: the RuntimeError raised after the attempt budget is exhausted wraps
\* the failure cause of the last failed attempt, whatever the failures were.
C3_WrapsLastCause ==
    (Exhausted /\ posts > 0) => exc[2] = CauseOf(resp)

HasPair(d) == IsNum(Get(d, "lat")) /\ IsNum(Get(d, "lon"))

\* the element holds a usable lat/lon pair or a usable center pair
Usable(el) ==
    \/ HasPair(el)
    \/ IsDict(Get(el, "center")) /\ HasPair(el["center"][2])

UsableOnly(elements) == SelectSeq(elements, Usable)

\* C4: an element without usable coordinates (none at all, or a lat, lon or
\* center entry that is null) is dropped silently: the search raises nothing
\* and returns what it returns for the remaining elements.
C4_DropsMalformedSilently ==
    SearchEnded =>
        /\ pc = "returned"
        /\ ret = Normalise(fn, ("elements" :> UsableOnly(ElementsOf(data))),
                           args)[2]

\* the records of the elements that have coordinates, in response order:
\* an element without coordinates builds no record (lines 221-222 skip it
\* before the key is computed), so it is no element of any pair
BuiltRecords == VetLoop(ElementsOf(data), 1, args.latitude, args.longitude, <<>>)[2]

PairOf(r) == <<r.name, r.address>>

\* the record of recs built from the first element with r's (name, address)
FirstWithPair(recs, r) ==
    recs[CHOOSE i \in 1..Len(recs) :
            /\ PairOf(recs[i]) = PairOf(r)
            /\ \A j \in 1..(i - 1) : PairOf(recs[j]) # PairOf(r)]

\* C5: the food search returns at most one record per (name, address), the
\* one built from the first element with that pair, and merges nothing
\* else: before truncation there is one record per distinct pair.
C5_DedupFirstWins ==
    (SearchReturned /\ fn = "search_nearby_pet_friendly_food") =>
        LET recs == BuiltRecords
        IN  /\ \A i, j \in 1..Len(ret) : PairOf(ret[i]) = PairOf(ret[j]) => i = j
            /\ \A i \in 1..Len(ret) : ret[i] = FirstWithPair(recs, ret[i])
            /\ Len(ret) = Min(Max(0, args.top_n),
                              Cardinality({PairOf(recs[i]) : i \in 1..Len(recs)}))

\* the response opens with an element of the same name that has no
\* coordinates; the farther node follows and is kept, the nearer way with
\* the same pair comes last and is dropped
C5_Witness ==
    /\ SearchReturned
    /\ fn = "search_nearby_pet_friendly_food"
    /\ Len(ElementsOf(data)) = 3
    /\ ~Usable(ElementsOf(data)[1])
    /\ NameOf(TagsOf(ElementsOf(data)[1])) = StrA
    /\ Len(BuiltRecords) = 2
    /\ PairOf(BuiltRecords[1]) = <<StrA, None>>
    /\ PairOf(BuiltRecords[2]) = <<StrA, None>>
    /\ BuiltRecords[2].distance_m < BuiltRecords[1].distance_m
    /\ ret = <<BuiltRecords[1]>>

\* mode strings that name no search
UnrecognisedModes ==
    { <<"i","n","v","a","l","i","d">>, <<"v","e","t">>,
      <<"F","O","O","U+0110">>, <<"f","o","o","d","U+212A">>, <<>>, None }

\* C6: search_nearby with an unrecognised mode raises ValueError at once:
\* no query is built, no POST is issued and nothing is slept.
C6_InvalidModeFailsAtOnce ==
    [][(pc = "dispatch" /\ args.mode \in UnrecognisedModes) =>
          /\ pc' = "raised"
          /\ exc'[1] = "ValueError"
          /\ query' = None
          /\ posts' = 0
          /\ sleeps' = <<>>]_vars

C6_Witness ==
    /\ pc = "raised"
    /\ fn = "search_nearby"
    /\ exc[1] = "ValueError"
    /\ args.mode = <<"i","n","v","a","l","i","d">>
    /\ posts = 0

\* C7: the sequence a search returns is non-decreasing in distance_m.
C7_SortedByDistance ==
    SearchReturned =>
        \A i \in 1..(Len(ret) - 1) : ret[i].distance_m <= ret[i + 1].distance_m

\* three records returned in another order than the response held them
C7_Witness ==
    /\ SearchReturned
    /\ Len(ret) = 3
    /\ Len(BuiltRecords) = 3
    /\ BuiltRecords[1].distance_m > BuiltRecords[3].distance_m
    /\ ret[1].distance_m < ret[3].distance_m

\* the records the search kept: all built ones, or one per pair
KeptRecords ==
    IF fn = "search_nearby_veterinary" THEN BuiltRecords
    ELSE FoodLoop(ElementsOf(data), 1, args.latitude, args.longitude, {}, <<>>)[2]

\* the place of kept[k] in the distance-sorted list: behind every nearer
\* record and behind every equally far record the response held earlier
PlaceOf(kept, k) ==
    1 + Cardinality({j \in 1..Len(kept) :
            \/ kept[j].distance_m < kept[k].distance_m
            \/ kept[j].distance_m = kept[k].distance_m /\ j < k})

\* C8: a search returns exactly the first max(0, top_n) records of the kept
\* records sorted by distance: min(max(0, top_n), kept) records, none for
\* top_n <= 0, every kept record whose place in the sorted list is within
\* that length at its place, and no kept record left out is nearer than one
\* returned.
C8_TruncatesAfterSort ==
    SearchReturned =>
        LET kept == KeptRecords
        IN  /\ Len(ret) = Min(Max(0, args.top_n), Len(kept))
            /\ \A k \in 1..Len(kept) :
                  PlaceOf(kept, k) <= Len(ret) => ret[PlaceOf(kept, k)] = kept[k]
            /\ args.top_n <= 0 => ret = <<>>
            /\ \A i \in 1..Len(ret) : \E k \in 1..Len(kept) : ret[i] = kept[k]
            /\ Len(ret) > 0 =>
                  Cardinality({k \in 1..Len(kept) :
                      kept[k].distance_m < ret[Len(ret)].distance_m}) < Len(ret)

\* top_n = 1 returns the nearest kept record, which the response held last
C8_Witness ==
    /\ SearchReturned
    /\ args.top_n = 1
    /\ Len(KeptRecords) = 3
    /\ Len(ret) = 1
    /\ ret[1] = KeptRecords[3]
    /\ ret[1].distance_m < KeptRecords[1].distance_m

\* C9: every record a search returns has exactly the keys name, address,
\* rating and distance_m, rating is null and distance_m is a non-negative
\* integer.
C9_FourKeyRecords ==
    SearchReturned =>
        \A i \in 1..Len(ret) :
            /\ DOMAIN ret[i] = {"name", "address", "rating", "distance_m"}
            /\ ret[i].rating = None
            /\ ret[i].distance_m \in Nat

\* a record without name and address beside one with both
C9_Witness ==
    /\ SearchReturned
    /\ Len(ret) = 2
    /\ ret[1].name = StrA
    /\ ret[1].address = StrS
    /\ ret[1].distance_m = 0
    /\ ret[2].name = None
    /\ ret[2].address = None
    /\ ret[2].distance_m = 111195

\* a tag holds text that is not blank
HasText(tags, k) == Truthy(Get(tags, k)) /\ Strip(tags[k]) # <<>>

\* C10: _build_address returns addr:full when present, else the present
\* component tags joined by spaces in the fixed order, else contact:address,
\* and null when that text is empty; and it returns an address whenever a
\* component tag or contact:address holds usable text.
C10_AddressWheneverText ==
    (fn = "_build_address" /\ pc = "returned") =>
        LET tags  == args.tags
            full  == Get(tags, "addr:full")
            parts == AddrParts(tags, 1)
        IN  /\ Truthy(full) => ret = OrNone(Strip(full))
            /\ (~Truthy(full) /\ parts # <<>>) => ret = OrNone(Strip(Join(parts)))
            /\ (~Truthy(full) /\ parts = <<>>) =>
                  ret = IF Truthy(Get(tags, "contact:address"))
                        THEN OrNone(Strip(tags["contact:address"]))
                        ELSE None
            /\ (\E i \in 1..Len(AddrKeys) : HasText(tags, AddrKeys[i])) => ret # None
            /\ HasText(tags, "contact:address") => ret # None

====
